---- MODULE Spec2Model ----
(***************************************************************************)
(* Model of ttools' GAN training interfaces (src/ttools/interfaces.py):    *)
(* construction of a GANInterface / WGANInterface and the alternating      *)
(* discriminator / generator update performed by training_step.            *)
(*                                                                         *)
(* Tensors are modelled by integers, Python's None by the empty sequence   *)
(* and a non-None value v by <<v>>.                                        *)
(***************************************************************************)
EXTENDS Bags, Integers, Sequences, FiniteSets, TLC

\* ---------------------------------------------------------------- bounds
MaxNcritic == 2     \* largest ncritic passed to the constructor
MaxCalls   == 6     \* training_step calls issued on one controller (Spec)
MaxPCalls  == 2     \* the same under CtorSpec and ParamSpec
PMax       == 2     \* parameter elements range over -PMax..PMax
CMax       == 1     \* largest Wasserstein clipping parameter c
MaxExtra   == 2     \* longest list returned by _extra_generator_loss
MaxLossVal == 1     \* GAN loss values range over 0..MaxLossVal
MaxNorm    == 2     \* gradient norms range over 0..MaxNorm
MaxGCalls  == 4     \* calls per behaviour when gradients are followed
MaxShape   == 2     \* score tensors have 1..MaxShape elements
ScoreMax   == 1     \* score elements range over -ScoreMax..ScoreMax
MaxOCalls  == 4     \* calls per behaviour when calls may overlap
MaxDepth   == 3     \* largest chain depth / num_convs
MaxCh      == 2     \* channel counts and widths range over 0..MaxCh
MaxLevels  == 3     \* largest num_levels of a UNet

\* ------------------------------------------------------------ value sets
None       == << >>
Some(v)    == << v >>

OptNames   == {"sgd", "adam", "rmsprop", "bogus"}
ParamVals  == (0 - PMax)..PMax
LossVals   == 0..MaxLossVal
GenIdx     == {1}
DiscIdx    == {1, 2}
GenParams  == [GenIdx -> 0..1]
DiscParams == [DiscIdx -> ParamVals]
GenZero    == [i \in GenIdx |-> 0]
DiscZero   == [i \in DiscIdx |-> 0]
\* the lists << >>, <<1>>, <<1, 2>>, ... of extra-loss terms
ExtraLists == {[i \in 1..n |-> i] : n \in 0..MaxExtra}
\* what the _extra_generator_loss hook may return: None or a list of tensors
ExtraRets  == {None} \cup {Some(l) : l \in ExtraLists}
\* the max_grad_norm argument: no clipping, or a threshold
NormArgs   == {None, Some(1)}
\* no network module built yet
NoNet      == [kind |-> "none"]
NoLoss     == [strategy |-> "none"]
\* two callers, each at a position inside training_step (at: "idle" outside
\* any call) with the value of self.iter it loaded for `self.iter += 1`;
\* begun counts the calls, dsince the discriminator updates since the latest
\* generator update, gcount the generator updates, overlapped whether a call
\* ever began while another was running
Callers    == {1, 2}
NoOverlap  ==
    [at |-> [t \in Callers |-> "idle"], tmp |-> [t \in Callers |-> 0],
     begun |-> 0, dsince |-> 0, gcount |-> 0, overlapped |-> FALSE]

VARIABLES
    pc,           \* "new" (not constructed), "ready", "ctor_failed"
    args,         \* the constructor's arguments (None before construction)
    discrim,      \* self.discrim is not None
    opt_g,        \* self.opt_g: None or Some(optimizer name)
    opt_d,        \* self.opt_d: None or Some(optimizer name)
    ncritic,      \* self.ncritic
    gan_weight,   \* self.gan_weight
    iter,         \* self.iter
    wgan,         \* the controller is a WGANInterface
    c,            \* self.c (WGANInterface only, else 0)
    max_grad_norm,\* self.max_grad_norm: None or Some(threshold)
    gen_params,   \* the generator's parameter elements
    disc_params,  \* the supplied discriminator's parameter elements
    calls,        \* number of training_step calls issued so far
    grads,        \* origins of the gradients in each player's .grad buffers
    clean,        \* no training_step call has raised so far
    last,         \* what the most recent training_step call did
    net,          \* the network module built last (modules/networks.py)
    gan_loss,     \* the latest evaluation of a loss strategy on two scores
    overlap       \* two callers of training_step on one controller

vars == <<pc, args, discrim, opt_g, opt_d, ncritic, gan_weight, iter, wgan, c,
          max_grad_norm, gen_params, disc_params, grads, calls, clean, last,
          net, gan_loss, overlap>>

\* ------------------------------------------------------------- helpers
RECURSIVE SumSeq(_)
\* Python's sum(losses): 0 for the empty list
SumSeq(s) == IF s = << >> THEN 0 ELSE Head(s) + SumSeq(Tail(s))

Min(a, b) == IF a < b THEN a ELSE b
Max(a, b) == IF a > b THEN a ELSE b

ClampUpperOnly(x, lim) == Min(x, lim)

\* p.data.clamp_(-c, c) on one element
Clamp(x, lim) == Min(Max(x, 0 - lim), lim)

\* for p in self.discrim.parameters(): p.data.clamp_(-self.c, self.c)
ClampAll(ps, lim) == [i \in DOMAIN ps |-> Clamp(ps[i], lim)]

\* ---------------------------------------------------------- construction
make_opt_accepts_all(name) == FALSE

\* make_opt raises ValueError("Invalid optimizer ...") for an unknown name
make_opt_raises(name) == name \notin {"sgd", "adam", "rmsprop"}

\* the optimizer make_opt returns for a valid name
make_opt(name) == Some(name)

CtorDiscrimKeepsArg(a) == a.discrim

\* self.discrim after the gan_weight == 0 test
CtorDiscrim(a) == IF a.gan_weight = 0 THEN FALSE ELSE a.discrim

CtorMakesOptDAlways(d) == TRUE

\* does the constructor call make_opt for the discriminator's optimizer
CtorMakesOptD(d) == d

\* WGANInterface.__init__: assert c > 0
CtorAssertC(a) == a.wgan => a.c > 0

CtorArgs ==
    [discrim : BOOLEAN, ncritic : (0 - 1)..MaxNcritic,
     gen_opt : OptNames, disc_opt : OptNames, gan_weight : 0..1,
     max_grad_norm : NormArgs, wgan : {FALSE}, c : {0}]
    \cup
    [discrim : BOOLEAN, ncritic : (0 - 1)..MaxNcritic,
     gen_opt : OptNames, disc_opt : OptNames, gan_weight : 0..1,
     max_grad_norm : NormArgs, wgan : {TRUE}, c : 0..CMax]

\* last before any call; extra is what _extra_generator_loss returned
NoCall ==
    [kind |-> "none", events |-> << >>, error |-> "none", extra |-> None,
     flow |-> [fake |-> {}, real |-> {}], nrm |-> None, stepnorm |-> None,
     warned |-> FALSE, report |-> None]

\* The .grad buffers of the two players' parameters: for each player the set
\* of origins of what the buffers hold, "cur" for the backward pass of the
\* latest call and "old" for the backward pass of an earlier call.
NoGrads == [gen |-> {}, disc |-> {}]

Init ==
    /\ pc = "new"
    /\ args = None
    /\ discrim = FALSE
    /\ opt_g = None
    /\ opt_d = None
    /\ ncritic = 0
    /\ gan_weight = 0
    /\ iter = 0
    /\ wgan = FALSE
    /\ c = 0
    /\ max_grad_norm = None
    /\ net = NoNet
    /\ gan_loss = NoLoss
    /\ overlap = NoOverlap
    /\ gen_params = GenZero
    /\ disc_params = DiscZero
    /\ grads = NoGrads
    /\ calls = 0
    /\ clean = TRUE
    /\ last = NoCall

\* GANInterface.__init__ (and WGANInterface.__init__ around it).  Fields
\* assigned before an exception keep their values; the object is then never
\* returned to the caller (pc = "ctor_failed").
Construct(In) ==
    /\ pc = "new"
    /\ \E a \in In.args, gen0 \in In.gen, disc0 \in In.disc :
        LET d      == CtorDiscrim(a)
            gfail  == make_opt_raises(a.gen_opt)
            dmake  == ~gfail /\ CtorMakesOptD(d)
            dfail  == dmake /\ make_opt_raises(a.disc_opt)
            cfail  == ~gfail /\ ~dfail /\ ~CtorAssertC(a)
        IN  /\ args' = Some(a)
            /\ discrim' = d
            /\ ncritic' = a.ncritic
            /\ gan_weight' = a.gan_weight
            /\ iter' = 0
            /\ wgan' = a.wgan
            /\ max_grad_norm' = a.max_grad_norm
            /\ gen_params' = gen0
            /\ disc_params' = IF a.discrim THEN disc0 ELSE disc_params
            /\ opt_g' = IF gfail THEN None ELSE make_opt(a.gen_opt)
            /\ opt_d' = IF dmake /\ ~dfail THEN make_opt(a.disc_opt) ELSE None
            /\ c' = IF a.wgan /\ ~gfail /\ ~dfail /\ ~cfail THEN a.c ELSE 0
            /\ pc' = IF gfail \/ dfail \/ cfail THEN "ctor_failed" ELSE "ready"
            /\ UNCHANGED <<grads, calls, clean, last, net, gan_loss, overlap>>

\* ----------------------------------------------------------- training_step
\* Which update backward() performs: "X" extra-loss only (no discriminator),
\* "D" discriminator update, "G" generator update.
BranchOffByOne(d, it, n) ==
    IF ~d THEN "X" ELSE IF it <= n THEN "D" ELSE "G"

Branch(d, it, n) ==
    IF ~d THEN "X" ELSE IF it < n THEN "D" ELSE "G"

PlanHeadLateCheck == <<"forward", "extra_loss", "check_fwd">>

\* The calls and assignments of one training_step, in program order, when
\* nothing raises.  extra is the value returned by _extra_generator_loss.
PlanHead == <<"forward", "check_fwd", "extra_loss">>

\* th.nn.utils.clip_grad_norm_ is called when max_grad_norm is not None
PlanClip(clip, e) == IF clip THEN <<e>> ELSE << >>

PlanXLateCheck(extra, clip) ==
    IF extra = None
    THEN PlanHead \o <<"zero_g", "check_extra">>
    ELSE PlanHead \o <<"zero_g", "check_extra", "backward_g">>
                  \o PlanClip(clip, "clip_g")
                  \o <<"step_g", "item", "merge">>

\* no discriminator
PlanX(extra, clip) ==
    IF extra = None
    THEN PlanHead \o <<"check_extra">>
    ELSE PlanHead \o <<"check_extra", "zero_g", "backward_g">>
                  \o PlanClip(clip, "clip_g")
                  \o <<"step_g", "item", "merge">>

\* WGANInterface._update_discriminator: clamp after the generic update
PlanPostD(w) == IF w THEN <<"clamp_d">> ELSE << >>

\* if extra_g_loss is not None: extra_g_loss = extra_g_loss.item()
PlanItem(extra) == IF extra = None THEN << >> ELSE <<"item">>

PlanDIncFirst(extra, w, clip) ==
    PlanHead \o <<"iter_inc", "input_fake", "eval_fake_nograd", "input_real",
                  "eval_real", "loss_d", "zero_d", "backward_d">>
             \o PlanClip(clip, "clip_d") \o <<"step_d">>
             \o PlanPostD(w) \o PlanItem(extra) \o <<"merge">>

\* discriminator update
PlanD(extra, w, clip) ==
    PlanHead \o <<"input_fake", "eval_fake_nograd", "input_real", "eval_real",
                  "loss_d", "zero_d", "backward_d">>
             \o PlanClip(clip, "clip_d") \o <<"step_d">>
             \o PlanPostD(w) \o <<"iter_inc">> \o PlanItem(extra) \o <<"merge">>

PlanGResetLast(extra, clip) ==
    PlanHead \o <<"input_fake", "eval_fake", "input_real",
                  "eval_real", "loss_g", "zero_g", "backward_g">>
             \o PlanClip(clip, "clip_g") \o <<"step_g", "iter_reset">>
             \o PlanItem(extra) \o <<"merge">>

PlanGStepsBoth(extra, clip) ==
    PlanHead \o <<"iter_reset", "input_fake", "eval_fake", "input_real",
                  "eval_real", "loss_g", "zero_g", "backward_g">>
             \o PlanClip(clip, "clip_g") \o <<"step_g", "step_d">>
             \o PlanItem(extra) \o <<"merge">>

\* generator update
PlanG(extra, clip) ==
    PlanHead \o <<"iter_reset", "input_fake", "eval_fake", "input_real",
                  "eval_real", "loss_g", "zero_g", "backward_g">>
             \o PlanClip(clip, "clip_g") \o <<"step_g">>
             \o PlanItem(extra) \o <<"merge">>

Plan(kind, extra, w, clip) ==
    IF kind = "X" THEN PlanX(extra, clip)
    ELSE IF kind = "D" THEN PlanD(extra, w, clip)
    ELSE PlanG(extra, clip)

\* Calls into collaborators (hooks, loss strategy, autograd, optimizer, the
\* final dict merge) that may raise whatever their arguments are.
MayRaise ==
    {"forward", "extra_loss", "input_fake", "eval_fake", "eval_fake_nograd",
     "input_real", "eval_real", "loss_d", "loss_g", "backward_d", "backward_g",
     "clip_d", "clip_g", "step_d", "step_g", "merge"}

\* Steps of the controller's own code that raise on the given inputs:
\*   check_fwd    forward did not return a dict            (ValueError)
\*   check_extra  no discriminator and no extra loss       (RuntimeError)
\*   backward_g   extra-loss-only path, sum([]) is int 0   (AttributeError)
\*   item         sum([]) is the int 0, it has no .item()  (AttributeError)
MustRaise(e, kind, fwd, extra) ==
    \/ e = "check_fwd" /\ fwd # "dict"
    \/ e = "check_extra" /\ extra = None
    \/ e = "backward_g" /\ kind = "X" /\ extra = Some(<< >>)
    \/ e = "item" /\ extra = Some(<< >>)

ErrorOf(e, kind, fwd, extra) ==
    IF e = "check_fwd" THEN "not_a_dict"
    ELSE IF e = "check_extra" THEN "nothing_to_optimize"
    ELSE IF MustRaise(e, kind, fwd, extra) THEN "attribute_error"
    ELSE "collaborator"

\* n is the number of plan entries completed; the call raises in entry n+1
\* when n < Len(plan)
StopOk(plan, n, kind, fwd, extra, raising) ==
    /\ \A i \in 1..n : ~MustRaise(plan[i], kind, fwd, extra)
    /\ n < Len(plan) =>
          \/ plan[n + 1] \in raising
          \/ MustRaise(plan[n + 1], kind, fwd, extra)

Did(ev, e) == \E i \in 1..Len(ev) : ev[i] = e

ReportBothLosses(kind, extra, lv) ==
    [loss_g |-> Some(lv),
     loss_d |-> IF kind = "D" THEN Some(lv) ELSE None,
     loss   |-> IF extra = None THEN None ELSE Some(SumSeq(extra[1])),
     extra_losses |-> IF extra = None THEN << >> ELSE extra[1]]

ReportCombinedLoss(kind, extra, lv) ==
    [loss_g |-> IF kind = "G" THEN Some(lv) ELSE None,
     loss_d |-> IF kind = "D" THEN Some(lv) ELSE None,
     loss   |-> IF kind = "G"
                   THEN Some(lv + (IF extra = None THEN 0
                                   ELSE SumSeq(extra[1])))
                ELSE IF extra = None THEN None ELSE Some(SumSeq(extra[1])),
     extra_losses |-> IF extra = None THEN << >> ELSE extra[1]]

\* the dict returned by backward()
Report(kind, extra, lv) ==
    [loss_g |-> IF kind = "G" THEN Some(lv) ELSE None,
     loss_d |-> IF kind = "D" THEN Some(lv) ELSE None,
     loss   |-> IF extra = None THEN None ELSE Some(SumSeq(extra[1])),
     extra_losses |-> IF extra = None THEN << >> ELSE extra[1]]

\* Autograd: the parameter sets a tensor has a gradient path to.
\* _discriminator_input: the fake sample comes from fwd_data, the generator's
\* output; the real sample comes from the batch.
InputPaths(fake) == IF fake THEN {"gen"} ELSE {}

\* _eval_d: self.discrim(*args), under th.no_grad() when backprop is False;
\* a tensor computed under no_grad has no gradient path at all
EvalPaths(inputPaths, backprop) ==
    IF backprop THEN inputPaths \cup {"disc"} ELSE {}

\* gradient paths of fake_pred and real_pred after the executed entries ev
FlowAfter(ev) ==
    [fake |-> IF Did(ev, "eval_fake_nograd")
                 THEN EvalPaths(InputPaths(TRUE), FALSE)
              ELSE IF Did(ev, "eval_fake")
                 THEN EvalPaths(InputPaths(TRUE), TRUE)
              ELSE {},
     real |-> IF Did(ev, "eval_real")
                 THEN EvalPaths(InputPaths(FALSE), TRUE)
              ELSE {}]

\* what the buffers hold was deposited before the call that starts now
Aged(g) ==
    [gen  |-> IF g.gen = {} THEN {} ELSE {"old"},
     disc |-> IF g.disc = {} THEN {} ELSE {"old"}]

\* gradient paths of the extra loss: it is computed from the generator's
\* output; sum([]) is the int 0 and carries none
ExtraPaths(extra) ==
    IF extra = None \/ extra = Some(<< >>) THEN {} ELSE {"gen"}

\* parameter sets total_loss.backward() deposits gradients into
\*   D: loss_d(fake_pred, real_pred) * gan_weight
\*   G: loss_g(fake_pred, real_pred) * gan_weight + extra_loss
\*   X: extra_g_loss
BackwardPaths(kind, extra, flow) ==
    IF kind = "D" THEN flow.fake \cup flow.real
    ELSE IF kind = "G" THEN flow.fake \cup flow.real \cup ExtraPaths(extra)
    ELSE ExtraPaths(extra)

GradEventNoZero(g, e, paths) ==
    IF e \in {"zero_d", "zero_g"} THEN g
    ELSE IF e \in {"backward_d", "backward_g"}
        THEN [gen  |-> IF "gen" \in paths THEN g.gen \cup {"cur"} ELSE g.gen,
              disc |-> IF "disc" \in paths THEN g.disc \cup {"cur"}
                       ELSE g.disc]
    ELSE g

\* one plan entry acting on the buffers: opt.zero_grad() empties the buffers
\* of that optimizer's parameters, backward() accumulates into every buffer
\* the loss has a path to
GradEvent(g, e, paths) ==
    IF e = "zero_d" THEN [g EXCEPT !.disc = {}]
    ELSE IF e = "zero_g" THEN [g EXCEPT !.gen = {}]
    ELSE IF e \in {"backward_d", "backward_g"}
        THEN [gen  |-> IF "gen" \in paths THEN g.gen \cup {"cur"} ELSE g.gen,
              disc |-> IF "disc" \in paths THEN g.disc \cup {"cur"}
                       ELSE g.disc]
    ELSE g

RECURSIVE GradFold(_, _, _)
GradFold(g, ev, paths) ==
    IF ev = << >> THEN g
    ELSE GradFold(GradEvent(g, Head(ev), paths), Tail(ev), paths)

\* the buffers after the executed entries ev of a call that found them as old
GradAfter(ev, kind, extra, old) ==
    GradFold(Aged(old), ev, BackwardPaths(kind, extra, FlowAfter(ev)))

ClipNormNoScale(nrm, t) == nrm

\* clip_grad_norm_(parameters, max_norm): the total norm of the gradients
\* after the call (scaled by max_norm / (norm + 1e-6) when that is below 1)
ClipNorm(nrm, t) == Min(nrm, t)

\* if nrm > self.max_grad_norm: LOG.warning(...)
ClipWarns(nrm, t) == nrm > t

\* the stepped player's gradient norm when its optimizer is stepped, where
\* nrm is the norm backward() left
StepNorm(ev, nrm, mgn) ==
    IF ~(Did(ev, "step_d") \/ Did(ev, "step_g")) THEN None
    ELSE IF Did(ev, "clip_d") \/ Did(ev, "clip_g")
        THEN Some(ClipNorm(nrm, mgn[1]))
    ELSE Some(nrm)

\* whether the call logged a clipping warning
Warned(ev, nrm, mgn) ==
    (Did(ev, "clip_d") \/ Did(ev, "clip_g")) /\ ClipWarns(nrm, mgn[1])

IterAfterAlwaysInc(ev, it) ==
    IF Did(ev, "iter_inc") \/ Did(ev, "iter_reset") THEN it + 1 ELSE it

\* self.iter after the executed entries ev
IterAfter(ev, it) ==
    IF Did(ev, "iter_inc") THEN it + 1
    ELSE IF Did(ev, "iter_reset") THEN 0
    ELSE it

DiscAfterClampEveryCall(ev, old, stepped, lim) ==
    IF Did(ev, "clamp_d") THEN ClampAll(stepped, lim)
    ELSE IF Did(ev, "step_d") THEN stepped
    ELSE IF Did(ev, "step_g") THEN ClampAll(old, lim)
    ELSE old

\* the discriminator's parameters after the executed entries ev, where
\* stepped is what opt_d.step() wrote
DiscAfter(ev, old, stepped, lim) ==
    IF Did(ev, "clamp_d") THEN ClampAll(stepped, lim)
    ELSE IF Did(ev, "step_d") THEN stepped
    ELSE old

\* the generator's parameters after the executed entries ev
GenAfter(ev, old, stepped) ==
    IF Did(ev, "step_g") THEN stepped ELSE old

TrainingStep(In) ==
    /\ pc = "ready"
    /\ calls < In.maxcalls
    /\ \E fwd \in In.fwd, extra \in In.extra :
        LET kind == Branch(discrim, iter, ncritic)
            plan == Plan(kind, extra, wgan, max_grad_norm # None)
        IN  \E n \in 0..Len(plan) :
            LET ev == SubSeq(plan, 1, n)
                ok == n = Len(plan)
            IN  /\ StopOk(plan, n, kind, fwd, extra, In.raising)
                \* inputs that were never read do not distinguish calls
                /\ ~Did(ev, "forward") => fwd = "dict"
                /\ ~Did(ev, "extra_loss") => extra = None
                /\ \E lv \in (IF ok /\ kind # "X" THEN In.lv ELSE {0}),
                      newg \in (IF Did(ev, "step_g") THEN In.gen
                                   ELSE {gen_params}),
                      newd \in (IF Did(ev, "step_d") THEN In.disc
                                   ELSE {disc_params}),
                      nrm \in (IF Did(ev, "backward_d")
                                     \/ Did(ev, "backward_g")
                                  THEN In.norm ELSE {0}) :
                    /\ iter' = IterAfter(ev, iter)
                    /\ disc_params' = DiscAfter(ev, disc_params, newd, c)
                    /\ gen_params' = GenAfter(ev, gen_params, newg)
                    /\ grads' = GradAfter(ev, kind, extra, grads)
                    /\ last' = [kind   |-> kind,
                                events |-> ev,
                                extra  |-> extra,
                                flow   |-> FlowAfter(ev),
                                nrm    |-> IF Did(ev, "backward_d")
                                              \/ Did(ev, "backward_g")
                                           THEN Some(nrm) ELSE None,
                                stepnorm |-> StepNorm(ev, nrm, max_grad_norm),
                                warned |-> Warned(ev, nrm, max_grad_norm),
                                error  |-> IF ok THEN "none"
                                           ELSE ErrorOf(plan[n + 1], kind,
                                                        fwd, extra),
                                report |-> IF ok
                                           THEN Some(Report(kind, extra, lv))
                                           ELSE None]
                    /\ calls' = calls + 1
                    /\ clean' = (clean /\ ok)
                    /\ UNCHANGED <<pc, args, discrim, opt_g, opt_d, ncritic,
                                   gan_weight, wgan, c, max_grad_norm, net,
                                   gan_loss, overlap>>

\* ------------------------------------------ training_step, two callers
\* training_step cut at its accesses to self.iter; nothing raises.  All other
\* fields of the controller are left as they are.
Frame ==
    UNCHANGED <<pc, args, discrim, opt_g, opt_d, ncritic, gan_weight, wgan, c,
                max_grad_norm, gen_params, disc_params, grads, calls, clean,
                last, net, gan_loss>>

\* training_step is entered: forward, the dict check, _extra_generator_loss
BeginStep(t, maxcalls) ==
    /\ pc = "ready" /\ discrim
    /\ overlap.at[t] = "idle"
    /\ overlap.begun < maxcalls
    /\ overlap' = [overlap EXCEPT
                      !.at[t] = "branch",
                      !.begun = @ + 1,
                      !.overlapped =
                          @ \/ \E u \in Callers \ {t} : overlap.at[u] # "idle"]
    /\ UNCHANGED iter
    /\ Frame

\* if self.iter < self.ncritic
ReadIter(t) ==
    /\ overlap.at[t] = "branch"
    /\ overlap' = [overlap EXCEPT
                      !.at[t] = IF Branch(discrim, iter, ncritic) = "D"
                                THEN "update_d" ELSE "reset"]
    /\ UNCHANGED iter
    /\ Frame

\* _eval_d twice and _update_discriminator
UpdateD(t) ==
    /\ overlap.at[t] = "update_d"
    /\ overlap' = [overlap EXCEPT !.at[t] = "load", !.dsince = @ + 1]
    /\ UNCHANGED iter
    /\ Frame

\* self.iter += 1 reads self.iter ...
LoadIter(t) ==
    /\ overlap.at[t] = "load"
    /\ overlap' = [overlap EXCEPT !.at[t] = "store", !.tmp[t] = iter]
    /\ UNCHANGED iter
    /\ Frame

\* ... and writes the sum back; the call returns
StoreIter(t) ==
    /\ overlap.at[t] = "store"
    /\ iter' = overlap.tmp[t] + 1
    /\ overlap' = [overlap EXCEPT !.at[t] = "idle", !.tmp[t] = 0]
    /\ Frame

\* self.iter = 0
ResetIter(t) ==
    /\ overlap.at[t] = "reset"
    /\ iter' = 0
    /\ overlap' = [overlap EXCEPT !.at[t] = "update_g"]
    /\ Frame

\* _eval_d twice and _update_generator; the call returns
UpdateG(t) ==
    /\ overlap.at[t] = "update_g"
    /\ overlap' = [overlap EXCEPT !.at[t] = "idle", !.dsince = 0,
                                  !.gcount = @ + 1]
    /\ UNCHANGED iter
    /\ Frame

\* ------------------------------------------------------ loss strategies
\* A score tensor is a sequence of n integers.  Values derived from it are
\* kept exact by carrying them multiplied by n: x - y.mean() is the sequence
\* of n*x[i] - sum(y).
ScoreVals == (0 - ScoreMax)..ScoreMax
Scores(n) == [1..n -> ScoreVals]

\* n * (x - y), elementwise
Diff(x, y) == [i \in DOMAIN x |-> Len(x) * (x[i] - y[i])]

\* n * (x - y.mean()), elementwise
MinusMean(x, y) == [i \in DOMAIN x |-> Len(y) * x[i] - SumSeq(y)]

\* n * x
Scaled(x) == [i \in DOMAIN x |-> Len(x) * x[i]]

\* BCEWithLogitsLoss(x, target) with target all ones or all zeros is the mean
\* of softplus(-x[i]) resp. softplus(x[i]); softplus is injective and is not
\* evaluated: the value is carried as the sequence of its arguments
cross_entropy(x, target) ==
    [i \in DOMAIN x |-> IF target = 1 THEN 0 - x[i] ELSE x[i]]

\* MSELoss(x, target) with a constant target, times n^3: the sum of the
\* squares of n*x[i] - n*target
mse(x, target) ==
    SumSeq([i \in DOMAIN x |-> (x[i] - Len(x) * target)
                                  * (x[i] - Len(x) * target)])

\* A loss value: the cross-entropy terms it averages (a bag, addition is
\* commutative), the sum of its squared-error terms, and the number of terms
\* averaged (1, or 2 for 0.5 * (a + b)).
BceLoss(a)     == [bce |-> SetToBag({a}), mse |-> 0, parts |-> 1]
BceHalf(a, b)  == [bce |-> SetToBag({a}) (+) SetToBag({b}), mse |-> 0,
                   parts |-> 2]
MseLoss(a)     == [bce |-> EmptyBag, mse |-> a, parts |-> 1]
MseHalf(a, b)  == [bce |-> EmptyBag, mse |-> a + b, parts |-> 2]

Strategies == {"sgan", "rgan", "ragan", "lsgan", "ralsgan"}

\* _discriminator_gan_loss of the five strategies
DiscriminatorLoss(strategy, fake_pred, real_pred) ==
    IF strategy = "sgan"
        THEN BceHalf(cross_entropy(Scaled(fake_pred), 0),
                     cross_entropy(Scaled(real_pred), 1))
    ELSE IF strategy = "rgan"
        THEN BceLoss(cross_entropy(Diff(real_pred, fake_pred), 1))
    ELSE IF strategy = "ragan"
        THEN BceHalf(cross_entropy(MinusMean(real_pred, fake_pred), 1),
                     cross_entropy(MinusMean(fake_pred, real_pred), 0))
    ELSE IF strategy = "lsgan"
        THEN MseHalf(mse(Scaled(fake_pred), 0), mse(Scaled(real_pred), 1))
    ELSE MseHalf(mse(MinusMean(real_pred, fake_pred), 1),
                 mse(MinusMean(fake_pred, real_pred), 0 - 1))

GeneratorLossAsDiscriminator(strategy, fake_pred, real_pred) ==
    DiscriminatorLoss(strategy, fake_pred, real_pred)

\* _generator_gan_loss of the five strategies
GeneratorLoss(strategy, fake_pred, real_pred) ==
    IF strategy = "sgan"
        THEN BceLoss(cross_entropy(Scaled(fake_pred), 1))
    ELSE IF strategy = "rgan"
        THEN BceLoss(cross_entropy(Diff(fake_pred, real_pred), 1))
    ELSE IF strategy = "ragan"
        THEN BceHalf(cross_entropy(MinusMean(real_pred, fake_pred), 0),
                     cross_entropy(MinusMean(fake_pred, real_pred), 1))
    ELSE IF strategy = "lsgan"
        THEN MseLoss(mse(Scaled(fake_pred), 1))
    ELSE MseHalf(mse(MinusMean(real_pred, fake_pred), 0 - 1),
                 mse(MinusMean(fake_pred, real_pred), 1))

\* one strategy evaluated on a pair of scores of equal shape, both ways round
EvalLosses ==
    /\ gan_loss = NoLoss
    /\ \E strategy \in Strategies, n \in 1..MaxShape :
        \E fake_pred \in Scores(n), real_pred \in Scores(n) :
          gan_loss' =
            [strategy |-> strategy, fake |-> fake_pred, real |-> real_pred,
             loss_d |-> DiscriminatorLoss(strategy, fake_pred, real_pred),
             loss_g |-> GeneratorLoss(strategy, fake_pred, real_pred),
             loss_d_swapped |->
                 DiscriminatorLoss(strategy, real_pred, fake_pred)]
    /\ UNCHANGED <<pc, args, discrim, opt_g, opt_d, ncritic, gan_weight, iter,
                   wgan, c, max_grad_norm, gen_params, disc_params, grads,
                   calls, clean, last, net, overlap>>

\* ------------------------------------------------- modules/networks.py
\* An argument that may be None, a scalar or a list carries its Python type;
\* v is the scalar and l the list (the other one is unused).
NoneArg     == [tag |-> "none", v |-> 0, l |-> << >>]
IntArg(x)   == [tag |-> "int", v |-> x, l |-> << >>]
FloatArg(x) == [tag |-> "float", v |-> x, l |-> << >>]
ListArg(l)  == [tag |-> "list", v |-> 0, l |-> l]

\* [v] * n, the empty list when n <= 0
Repeat(v, n) == [i \in 1..n |-> v]

RECURSIVE Pow(_, _)
Pow(b, e) == IF e <= 0 THEN 1 ELSE b * Pow(b, e - 1)

\* _get_activation: assert activation in ["relu", "leaky_relu", "lrelu"]
ActivationValid(name) == name \in {"relu", "leaky_relu", "lrelu"}

\* the layer _get_activation returns
ActivationLayer(act) ==
    IF act = None THEN None
    ELSE IF act[1] = "relu" THEN Some("ReLU") ELSE Some("LeakyReLU")

\* the gain _init_fc_or_conv initialises the weights with: 1.0 without an
\* activation, else calculate_gain(activation), sqrt(2) for relu and
\* sqrt(2 / (1 + 0.01^2)) for leaky_relu
InitGain(act) ==
    IF act = None THEN "1.0"
    ELSE IF act[1] = "relu" THEN "sqrt(2)" ELSE "sqrt(2/(1+0.01^2))"

\* nn.init.calculate_gain(activation) knows "relu" and "leaky_relu" (and
\* names no activation here can take); any other name is a ValueError
GainKnown(name) == name \in {"relu", "leaky_relu"}

\* _get_norm_layer: assert norm_layer in ["instance", "batch"]
NormValid(name) == name \in {"instance", "batch"}

\* activation is None or Some(name): the activation stage and the
\* initialisation of the unit both succeed
ActivationOk(act) ==
    act = None \/ (ActivationValid(act[1]) /\ GainKnown(act[1]))

\* FCModule.__init__
FCModule(n_in, n_out, act, dropout) ==
    [ok |-> n_in > 0 /\ n_out > 0 /\ ActivationOk(act),
     n_in |-> n_in, n_out |-> n_out, activation |-> ActivationLayer(act),
     gain |-> InitGain(act), dropout |-> dropout]

\* ConvModule.__init__
ConvModule(n_in, n_out, ksize, stride, pad, act, norm) ==
    [ok |-> /\ n_in > 0 /\ n_out > 0 /\ ksize > 0
            /\ (norm = None \/ NormValid(norm[1]))
            /\ ActivationOk(act),
     n_in |-> n_in, n_out |-> n_out, ksize |-> ksize, stride |-> stride,
     padding |-> IF pad THEN (ksize - 1) \div 2 ELSE 0,
     bias |-> norm = None, norm |-> norm,
     activation |-> ActivationLayer(act), gain |-> InitGain(act)]

\* a chain whose constructor raised
ChainFailed == [ok |-> FALSE, units |-> << >>]

ChainInDropsFirst(n_in, width, depth) ==
    <<n_in>> \o (IF width.tag = "int" THEN Repeat(width.v, depth - 1)
                 ELSE SubSeq(width.l, 2, Len(width.l)))

\* _in of a chain: [n_in] + [width]*(depth-1), or [n_in] + width[:-1]
ChainIn(n_in, width, depth) ==
    <<n_in>> \o (IF width.tag = "int" THEN Repeat(width.v, depth - 1)
                 ELSE SubSeq(width.l, 1, Len(width.l) - 1))

\* _out of a chain: [width]*depth, or width
ChainOut(width, depth) ==
    IF width.tag = "int" THEN Repeat(width.v, depth) ELSE width.l

\* the checks on width: int or list, a list has depth entries
WidthOk(width, depth) ==
    /\ width.tag \in {"int", "list"}
    /\ width.tag = "list" => Len(width.l) = depth

\* FCChain: dropout is None, a float or a list of depth entries
DropoutOk(dropout, depth) ==
    /\ dropout.tag \in {"none", "float", "list"}
    /\ dropout.tag = "list" => Len(dropout.l) = depth

\* _dropout of an FCChain
ChainDropout(dropout, depth) ==
    IF dropout.tag = "list" THEN [i \in 1..depth |-> Some(dropout.l[i])]
    ELSE IF dropout.tag = "none" THEN Repeat(None, depth)
    ELSE Repeat(Some(dropout.v), depth)

StridesOkIntBroadcast(strides, depth) ==
    /\ strides.tag \in {"none", "int", "list"}
    /\ strides.tag = "list" => Len(strides.l) = depth

\* ConvChain: strides is None or a list of depth entries
StridesOk(strides, depth) ==
    /\ strides.tag \in {"none", "list"}
    /\ strides.tag = "list" => Len(strides.l) = depth

\* _strides of a ConvChain
ChainStrides(strides, depth) ==
    IF strides.tag = "none" THEN Repeat(1, depth)
    ELSE IF strides.tag = "list" THEN strides.l
    ELSE Repeat(strides.v, depth)

\* ConvChain: ksize is a positive int or a list of depth entries
KsizeOk(ksize, depth) ==
    /\ ksize.tag \in {"int", "list"}
    /\ ksize.tag = "int" => ksize.v > 0
    /\ ksize.tag = "list" => Len(ksize.l) = depth

\* _ksizes of a ConvChain
ChainKsizes(ksize, depth) ==
    IF ksize.tag = "int" THEN Repeat(ksize.v, depth) ELSE ksize.l

\* FCChain.__init__
FCChain(n_in, width, depth, act, dropout) ==
    IF ~(/\ n_in > 0 /\ depth > 0
         /\ WidthOk(width, depth) /\ DropoutOk(dropout, depth))
    THEN ChainFailed
    ELSE LET ins   == ChainIn(n_in, width, depth)
             outs  == ChainOut(width, depth)
             drops == ChainDropout(dropout, depth)
             units == [i \in 1..depth |->
                          FCModule(ins[i], outs[i], act, drops[i])]
         IN  IF \A i \in 1..depth : units[i].ok
             THEN [ok |-> TRUE, units |-> units]
             ELSE ChainFailed

\* ConvChain.__init__
ConvChain(n_in, ksize, width, depth, strides, pad, act, norm) ==
    IF ~(/\ n_in > 0 /\ depth > 0
         /\ KsizeOk(ksize, depth) /\ WidthOk(width, depth)
         /\ StridesOk(strides, depth))
    THEN ChainFailed
    ELSE LET ins   == ChainIn(n_in, width, depth)
             outs  == ChainOut(width, depth)
             ks    == ChainKsizes(ksize, depth)
             st    == ChainStrides(strides, depth)
             units == [i \in 1..depth |->
                          ConvModule(ins[i], outs[i], ks[i], st[i], pad,
                                     act, norm)]
         IN  IF \A i \in 1..depth : units[i].ok
             THEN [ok |-> TRUE, units |-> units]
             ELSE ChainFailed

\* ---- inputs of the chain constructors
\* the lists <<1>>, <<1, 2>>, ... (one distinct entry per layer)
RampLists  == {[i \in 1..n |-> i] : n \in 1..MaxDepth}
ChLists    == UNION {[1..n -> 1..MaxCh] : n \in 1..MaxDepth}
ActArgs    == {None, Some("relu"), Some("leaky_relu"), Some("lrelu")}
NormLayerArgs == {None, Some("batch")}
FCWidthArgs   == {IntArg(x) : x \in 0..MaxCh} \cup {ListArg(l) : l \in ChLists}
ConvWidthArgs == {IntArg(x) : x \in 0..MaxCh} \cup {ListArg(l) : l \in RampLists}
DropoutArgs   == {NoneArg, FloatArg(1), IntArg(1)}
                    \cup {ListArg(l) : l \in RampLists}
KsizeArgs     == {IntArg(0), IntArg(3)} \cup {ListArg(l) : l \in RampLists}
StridesArgs   == {NoneArg, IntArg(2)} \cup {ListArg(l) : l \in RampLists}

\* net = FCChain(n_in, width, depth, activation, dropout)
BuildFCChain ==
    /\ net = NoNet
    /\ \E n_in \in 0..MaxCh, width \in FCWidthArgs, depth \in 0..MaxDepth,
          act \in ActArgs, dropout \in DropoutArgs :
          net' = [kind |-> "fc",
                  args |-> [n_in |-> n_in, width |-> width, depth |-> depth,
                            activation |-> act, dropout |-> dropout],
                  chain |-> FCChain(n_in, width, depth, act, dropout)]
    /\ UNCHANGED <<pc, args, discrim, opt_g, opt_d, ncritic, gan_weight, iter,
                   wgan, c, max_grad_norm, gen_params, disc_params, grads,
                   calls, clean, last, gan_loss, overlap>>

\* net = ConvChain(n_in, ksize, width, depth, strides, pad, activation,
\*                 norm_layer)
BuildConvChain ==
    /\ net = NoNet
    /\ \E n_in \in 0..MaxCh, ksize \in KsizeArgs, width \in ConvWidthArgs,
          depth \in 0..MaxDepth, strides \in StridesArgs, pad \in BOOLEAN,
          act \in {None, Some("relu"), Some("lrelu")}, norm \in NormLayerArgs :
          net' = [kind |-> "conv",
                  args |-> [n_in |-> n_in, ksize |-> ksize, width |-> width,
                            depth |-> depth, strides |-> strides, pad |-> pad,
                            activation |-> act, norm_layer |-> norm],
                  chain |-> ConvChain(n_in, ksize, width, depth, strides, pad,
                                      act, norm)]
    /\ UNCHANGED <<pc, args, discrim, opt_g, opt_d, ncritic, gan_weight, iter,
                   wgan, c, max_grad_norm, gen_params, disc_params, grads,
                   calls, clean, last, gan_loss, overlap>>

\* UNet._width
UNetWidth(a, lvl) ==
    Min(a.base_width * Pow(a.increase_factor, lvl), a.max_width)

\* lvl_in of UNet.__init__
LevelIn(a, lvl) == IF lvl = 0 THEN a.n_in ELSE UNetWidth(a, lvl - 1)

LevelOutOwnWidth(a, lvl) == IF lvl = 0 THEN a.n_out ELSE UNetWidth(a, lvl)

\* lvl_out of UNet.__init__
LevelOut(a, lvl) == IF lvl = 0 THEN a.n_out ELSE UNetWidth(a, lvl - 1)

\* n_child_out of UNet.__init__: reset to 0 only in the branch lvl # 0
NChildOut(a, lvl) ==
    IF lvl # 0 /\ lvl = a.num_levels - 1 THEN 0 ELSE UNetWidth(a, lvl)

\* _UNetLevel.__init__
UNetLevel(n_in, n_out, width, ksize, num_convs, act, norm, child, n_child_out) ==
    [left  |-> ConvChain(n_in, IntArg(ksize), IntArg(width), num_convs,
                         NoneArg, TRUE, act, norm),
     right |-> ConvChain(width + n_child_out, IntArg(ksize),
                         ListArg(Repeat(width, num_convs - 1) \o <<n_out>>),
                         num_convs, NoneArg, TRUE, act, norm),
     has_child |-> child, width |-> width, n_child_out |-> n_child_out]

\* UNet.__init__: levels[l + 1] is level l; the child of level l is level
\* l + 1, built one iteration earlier. With no iteration u_lvl is unbound.
UNet(a) ==
    LET levels == [i \in 1..a.num_levels |->
                      UNetLevel(LevelIn(a, i - 1), LevelOut(a, i - 1),
                                UNetWidth(a, i - 1), a.ksize, a.num_convs,
                                a.activation, a.norm_layer,
                                i < a.num_levels, NChildOut(a, i - 1))]
    IN  IF /\ a.num_levels >= 1
           /\ \A i \in 1..a.num_levels :
                 levels[i].left.ok /\ levels[i].right.ok
        THEN [ok |-> TRUE, levels |-> levels]
        ELSE [ok |-> FALSE, levels |-> << >>]

\* channel count a built chain produces
ChainOutCh(chain) == chain.units[Len(chain.units)].n_out

\* channel count _UNetLevel.forward returns: the output of self.right
LevelOutCh(levels, i) == ChainOutCh(levels[i].right)

\* channel count _UNetLevel.forward feeds self.right: left_features,
\* concatenated with the upsampled child features when there is a child
FedCh(levels, i) ==
    ChainOutCh(levels[i].left)
        + (IF levels[i].has_child THEN LevelOutCh(levels, i + 1) ELSE 0)

\* channel count the first unit of self.right was declared with
DeclaredCh(levels, i) == levels[i].right.units[1].n_in

UNetArgs ==
    [n_in : 1..MaxCh, n_out : 1..MaxCh, ksize : {3}, base_width : 1..MaxCh,
     max_width : {MaxCh, MaxCh * MaxCh}, increase_factor : 1..2,
     num_convs : 0..MaxDepth, num_levels : 0..MaxLevels,
     activation : {Some("relu")}, norm_layer : {None}]

\* net = UNet(n_in, n_out, ksize, base_width, max_width, increase_factor,
\*            num_convs, num_levels, activation, norm_layer)
BuildUNet ==
    /\ net = NoNet
    /\ \E a \in UNetArgs :
          net' = [kind |-> "unet", args |-> a, unet |-> UNet(a)]
    /\ UNCHANGED <<pc, args, discrim, opt_g, opt_d, ncritic, gan_weight, iter,
                   wgan, c, max_grad_norm, gen_params, disc_params, grads,
                   calls, clean, last, gan_loss, overlap>>

\* -------------------------------------------------------- specifications
\* Spec: every hook result and every failure point over several calls, on
\* controllers built with the default optimizer name or an unknown one;
\* tensors' values are not followed (all parameter elements are 0, the
\* clamp bound of a WGANInterface is 0 or 1, no clip threshold is set).
CtlArgs ==
    {a \in CtorArgs : /\ a.gen_opt \in {"rmsprop", "bogus"}
                      /\ a.disc_opt \in {"rmsprop", "bogus"}
                      /\ a.c <= 1 /\ a.max_grad_norm = None}

CtlIn ==
    [args |-> CtlArgs, gen |-> {GenZero}, disc |-> {DiscZero},
     fwd |-> {"dict", "other"}, extra |-> ExtraRets, lv |-> LossVals,
     norm |-> {0}, raising |-> MayRaise, maxcalls |-> MaxCalls]

Next == Construct(CtlIn) \/ TrainingStep(CtlIn)

Spec == Init /\ [][Next]_vars

\* CtorSpec: every combination of constructor arguments, followed by a few
\* calls on the controllers that were built.
CtorIn ==
    [args |-> CtorArgs, gen |-> {GenZero}, disc |-> {DiscZero},
     fwd |-> {"dict"}, extra |-> {Some(<<1>>)}, lv |-> {0},
     norm |-> {0}, raising |-> {"step_d", "step_g"}, maxcalls |-> MaxPCalls]

CtorNext == Construct(CtorIn) \/ TrainingStep(CtorIn)

CtorSpec == Init /\ [][CtorNext]_vars

\* ParamSpec: the parameter elements' values are followed (any start value,
\* any value written by an optimizer step) on controllers built with valid
\* optimizer names, ncritic >= 1 and no clip threshold; backward passes,
\* optimizer steps and the final merge may raise.
ParamArgs ==
    {a \in CtorArgs : /\ a.gen_opt = "rmsprop" /\ a.disc_opt = "rmsprop"
                      /\ a.ncritic >= 1 /\ a.gan_weight = 1
                      /\ a.max_grad_norm = None}

ParamIn ==
    [args |-> ParamArgs, gen |-> GenParams, disc |-> DiscParams,
     fwd |-> {"dict"}, extra |-> {Some(<<1>>)}, lv |-> {0},
     norm |-> {0},
     raising |-> {"backward_d", "step_d", "backward_g", "step_g", "merge"},
     maxcalls |-> MaxPCalls]

ParamNext == Construct(ParamIn) \/ TrainingStep(ParamIn)

ParamSpec == Init /\ [][ParamNext]_vars

\* GradSpec: the gradient buffers, their norm and the clipping are followed
\* on controllers built with valid optimizer names, with and without a clip
\* threshold; backward passes, clipping and optimizer steps may raise.
GradArgs ==
    {a \in CtorArgs : /\ a.gen_opt = "rmsprop" /\ a.disc_opt = "rmsprop"
                      /\ a.ncritic >= 0 /\ a.gan_weight = 1 /\ a.c <= 1}

GradIn ==
    [args |-> GradArgs, gen |-> {GenZero}, disc |-> {DiscZero},
     fwd |-> {"dict"}, extra |-> {None, Some(<<1>>)}, lv |-> {0},
     norm |-> 0..MaxNorm,
     raising |-> {"backward_d", "clip_d", "step_d",
                  "backward_g", "clip_g", "step_g"},
     maxcalls |-> MaxGCalls]

GradNext == Construct(GradIn) \/ TrainingStep(GradIn)

GradSpec == Init /\ [][GradNext]_vars

\* OverlapSpec: two callers run training_step on one controller that has a
\* discriminator; a caller may enter while the other is inside a call.
OverlapArgs ==
    {a \in CtorArgs : /\ a.gen_opt = "rmsprop" /\ a.disc_opt = "rmsprop"
                      /\ a.discrim /\ a.gan_weight = 1 /\ ~a.wgan
                      /\ a.max_grad_norm = None}

OverlapIn ==
    [args |-> OverlapArgs, gen |-> {GenZero}, disc |-> {DiscZero},
     fwd |-> {"dict"}, extra |-> {None}, lv |-> {0}, norm |-> {0},
     raising |-> {}, maxcalls |-> MaxOCalls]

OverlapNext ==
    \/ Construct(OverlapIn)
    \/ \E t \in Callers :
          \/ BeginStep(t, OverlapIn.maxcalls)
          \/ ReadIter(t)
          \/ UpdateD(t)
          \/ LoadIter(t)
          \/ StoreIter(t)
          \/ ResetIter(t)
          \/ UpdateG(t)

OverlapSpec == Init /\ [][OverlapNext]_vars

\* LossSpec: the loss strategies as functions of two score tensors.
LossNext == EvalLosses
LossSpec == Init /\ [][LossNext]_vars

\* One network module is built per behaviour.
NetNext == BuildFCChain \/ BuildConvChain \/ BuildUNet
NetSpec == Init /\ [][NetNext]_vars

\* ------------------------------------------------------------ properties
Ready    == pc = "ready"
Called   == Ready /\ calls >= 1
Returned == Called /\ last.report # None
Rep      == last.report[1]
Steps(ev) == {i \in 1..Len(ev) : ev[i] \in {"step_g", "step_d"}}
DiscEvents ==
    {"input_fake", "input_real", "eval_fake", "eval_fake_nograd", "eval_real",
     "loss_d", "loss_g", "zero_d", "backward_d", "step_d", "clamp_d"}
ValidOpt(name) == name \in {"sgd", "adam", "rmsprop"}

\* C1: with a discriminator and ncritic = N >= 1, while every call so far has
\* succeeded, call number k (counted from 0) is a generator update exactly
\* when k mod (N+1) = N and a discriminator update otherwise; it reports
\* loss_g resp. loss_d accordingly, and iter is 0 after a generator update.
C1_CriticSchedule ==
    (Called /\ discrim /\ ncritic >= 1 /\ clean) =>
        LET k == calls - 1
            g == k % (ncritic + 1) = ncritic
        IN  /\ last.kind = (IF g THEN "G" ELSE "D")
            /\ (Rep.loss_g # None) = g
            /\ (Rep.loss_d # None) = ~g
            /\ g => iter = 0
            /\ iter = calls % (ncritic + 1)

C1_Witness ==
    /\ Called /\ discrim /\ clean /\ ncritic = 2 /\ calls = 6
    /\ last.kind = "G" /\ Rep.loss_g # None /\ iter = 0

\* C2: on a controller built with ncritic >= 1, 0 <= iter <= ncritic after
\* any sequence of calls, whether they returned or raised.
C2_IterRange ==
    (Ready /\ ncritic >= 1) => (0 <= iter /\ iter <= ncritic)

C2_Witness ==
    /\ Called /\ discrim /\ ncritic = 2 /\ iter = ncritic /\ ~clean
    /\ last.kind = "D" /\ last.error = "attribute_error"

\* C3: with a discriminator, a call that returns reports exactly one of
\* loss_g and loss_d: loss_d on a discriminator update, loss_g on a
\* generator update.
C3_ExactlyOneLoss ==
    (Returned /\ discrim) =>
        /\ (Rep.loss_g # None) # (Rep.loss_d # None)
        /\ last.kind = "D" => Rep.loss_d # None
        /\ last.kind = "G" => Rep.loss_g # None

C3_Witness ==
    /\ Returned /\ discrim /\ last.kind = "G"
    /\ Rep.loss_g # None /\ Rep.loss_d = None

\* C4: a call that returns has stepped exactly one optimizer: opt_d only when
\* it started with a discriminator and iter < ncritic, opt_g only when it
\* started with iter = ncritic or without a discriminator.
C4_OneOptimizerStep ==
    [][(calls' = calls + 1 /\ last'.report # None) =>
          LET ev == last'.events
          IN  /\ Cardinality(Steps(ev)) = 1
              /\ (discrim /\ iter < ncritic) =>
                    (Did(ev, "step_d") /\ ~Did(ev, "step_g"))
              /\ (discrim /\ iter = ncritic) =>
                    (Did(ev, "step_g") /\ ~Did(ev, "step_d"))
              /\ ~discrim => (Did(ev, "step_g") /\ ~Did(ev, "step_d"))]_vars

C4_Witness ==
    /\ Returned /\ discrim /\ last.kind = "G" /\ calls >= 2
    /\ Did(last.events, "step_g") /\ ~Did(last.events, "step_d")

\* C5: without a discriminator, a call whose _extra_generator_loss result is
\* None raises, having neither zeroed a gradient nor stepped an optimizer,
\* and iter stays 0.
C5_NothingToOptimize ==
    (Called /\ ~discrim /\ last.extra = None) =>
        /\ last.report = None
        /\ last.error # "none"
        /\ Did(last.events, "extra_loss") => last.error = "nothing_to_optimize"
        /\ ~Did(last.events, "zero_g") /\ ~Did(last.events, "zero_d")
        /\ Steps(last.events) = {}
        /\ iter = 0

C5_Witness ==
    /\ Called /\ ~discrim /\ calls >= 2 /\ last.extra = None
    /\ Did(last.events, "extra_loss")
    /\ last.error = "nothing_to_optimize" /\ iter = 0

\* C6: without a discriminator, a call whose _extra_generator_loss result is
\* a list (and in which no collaborator raises) updates the generator only,
\* leaves iter at 0 and reports loss_g = None, loss_d = None, loss = the sum
\* of the terms and extra_losses = the terms.  (Stated for ncritic >= 1.)
C6_ExtraLossOnly ==
    (Called /\ ~discrim /\ ncritic >= 1 /\ last.extra # None
        /\ last.error # "collaborator") =>
        /\ last.report # None
        /\ Rep = [loss_g |-> None, loss_d |-> None,
                  loss |-> Some(SumSeq(last.extra[1])),
                  extra_losses |-> last.extra[1]]
        /\ Did(last.events, "step_g") /\ ~Did(last.events, "step_d")
        /\ iter = 0

\* C7: a controller built with gan_weight = 0 has neither discriminator nor
\* opt_d whatever discriminator was supplied; no call evaluates or updates
\* the discriminator or changes iter, every call takes the extra-loss path.
C7_ZeroWeightNoDiscriminator ==
    (Ready /\ gan_weight = 0) =>
        /\ ~discrim /\ opt_d = None
        /\ iter = 0
        /\ last.kind \in {"none", "X"}
        /\ \A i \in 1..Len(last.events) : last.events[i] \notin DiscEvents

C7_Witness ==
    /\ Returned /\ gan_weight = 0 /\ args[1].discrim /\ calls >= 2
    /\ last.kind = "X" /\ Did(last.events, "step_g")

\* C8: on a constructed controller the discriminator and opt_d are both
\* present or both absent.
C8_DiscrimIffOptD ==
    Ready => (discrim <=> opt_d # None)

C8_Witness ==
    /\ Called /\ args[1].discrim /\ ~discrim /\ opt_d = None

\* C9: under the Wasserstein strategy, after a call that stepped the
\* discriminator's optimizer every discriminator parameter element lies in
\* [-c, c].
C9_WassersteinClamp ==
    (Called /\ wgan /\ Did(last.events, "step_d")) =>
        \A i \in DiscIdx : 0 - c <= disc_params[i] /\ disc_params[i] <= c

C9_Witness ==
    /\ Called /\ wgan /\ c = 1 /\ Did(last.events, "clamp_d")
    /\ disc_params[1] = 0 - c /\ disc_params[2] = c

\* C10 as stated: construction fails whenever gen_opt or disc_opt is not one
\* of sgd, adam, rmsprop, whatever the other arguments are.  (Stated for
\* ncritic >= 1.)
C10_AnyInvalidNameFails ==
    (args # None /\ args[1].ncritic >= 1
        /\ (~ValidOpt(args[1].gen_opt) \/ ~ValidOpt(args[1].disc_opt)))
        => pc = "ctor_failed"

\* C10 amended: construction fails whenever gen_opt is invalid, or disc_opt
\* is invalid and a discriminator is in use (one was supplied and
\* gan_weight # 0).
C10_UsedInvalidNameFails ==
    (args # None /\
        (\/ ~ValidOpt(args[1].gen_opt)
         \/ (~ValidOpt(args[1].disc_opt) /\ args[1].discrim
                /\ args[1].gan_weight # 0)))
        => pc = "ctor_failed"

C10_Witness ==
    /\ pc = "ctor_failed" /\ ValidOpt(args[1].gen_opt)
    /\ ~ValidOpt(args[1].disc_opt) /\ args[1].discrim /\ args[1].gan_weight # 0

Pos(ev, e) == CHOOSE i \in 1..Len(ev) : ev[i] = e
\* if b was executed then a was executed before it
Before(ev, a, b) == Did(ev, b) => (Did(ev, a) /\ Pos(ev, a) < Pos(ev, b))
BackwardEvents ==
    {"extra_loss", "check_extra", "input_fake", "input_real", "eval_fake",
     "eval_fake_nograd", "eval_real", "loss_d", "loss_g", "zero_d", "zero_g",
     "backward_d", "backward_g", "clip_d", "clip_g", "step_d", "step_g",
     "clamp_d", "iter_inc", "iter_reset", "item"}
ExtraSum == IF last.extra = None THEN 0 ELSE SumSeq(last.extra[1])

\* C11: a call whose forward result is not a dict raises without entering
\* backward(): nothing of the update is executed (no zero_grad, no optimizer
\* step), the parameters are untouched and iter keeps its value.
C11_NonDictForward ==
    [][(calls' = calls + 1 /\ last'.error = "not_a_dict") =>
          /\ last'.report = None
          /\ \A i \in 1..Len(last'.events) :
                last'.events[i] \notin BackwardEvents
          /\ iter' = iter
          /\ gen_params' = gen_params /\ disc_params' = disc_params]_vars

C11_Witness ==
    /\ Called /\ last.error = "not_a_dict" /\ last.events = <<"forward">>
    /\ discrim /\ ncritic = 2 /\ iter = 2

\* C12: every constructed controller has ncritic >= 1.
C12_NcriticPositive ==
    Ready => ncritic >= 1

\* C13 as stated: with a discriminator, a returning generator update reports
\* in loss the combined value gan_weight * loss_g + the summed extra loss.
\* (Stated for ncritic >= 1.)
C13_LossIsCombined ==
    (Returned /\ discrim /\ ncritic >= 1 /\ last.kind = "G") =>
        Rep.loss = Some(gan_weight * Rep.loss_g[1] + ExtraSum)

\* C13 amended: in every returning call, with or without a discriminator,
\* loss is the bare summed extra loss, and None when _extra_generator_loss
\* returned None; loss_g is the bare GAN loss.
C13_LossIsExtraOnly ==
    Returned =>
        Rep.loss = (IF last.extra = None THEN None ELSE Some(ExtraSum))

C13_Witness ==
    /\ Returned /\ discrim /\ last.kind = "G" /\ gan_weight = 1
    /\ last.extra = Some(<<1, 2>>) /\ Rep.loss_g = Some(1)
    /\ Rep.loss = Some(3)

\* the chain net holds was built
ChainBuilt(kind) == net.kind = kind /\ net.chain.ok
UNetBuilt       == net.kind = "unet" /\ net.unet.ok

\* entry i of an argument given as a scalar or as a list
ArgAt(arg, i) == IF arg.tag = "list" THEN arg.l[i] ELSE arg.v

\* C14: every FCChain and ConvChain that is built from depth d >= 1 and a
\* width given as an int or a list of d ints has exactly d units, the first
\* unit takes n_in channels, each later unit takes what its predecessor
\* outputs, and the last unit outputs the final width (the int, or the last
\* entry of the list).
C14_ChainContinuity ==
    (net.kind \in {"fc", "conv"} /\ net.chain.ok) =>
        LET u == net.chain.units
            d == net.args.depth
            w == net.args.width
        IN  /\ d >= 1
            /\ w.tag \in {"int", "list"}
            /\ w.tag = "list" => Len(w.l) = d
            /\ Len(u) = d
            /\ u[1].n_in = net.args.n_in
            /\ \A i \in 1..(d - 1) : u[i + 1].n_in = u[i].n_out
            /\ u[d].n_out = (IF w.tag = "int" THEN w.v ELSE w.l[Len(w.l)])

C14_Witness ==
    /\ ChainBuilt("conv") /\ net.args.depth = 3 /\ net.args.n_in = 2
    /\ net.args.width = ListArg(<<1, 2, 3>>)
    /\ net.chain.units[2].n_in = 1 /\ net.chain.units[3].n_in = 2
    /\ net.chain.units[3].n_out = 3

\* C15 as stated: a ConvChain whose other arguments are accepted and whose
\* strides argument is a single integer s is built, with depth units that all
\* use stride s.
C15_ScalarStrideBroadcast ==
    (/\ net.kind = "conv" /\ net.args.strides.tag = "int"
     /\ ConvChain(net.args.n_in, net.args.ksize, net.args.width,
                  net.args.depth, NoneArg, net.args.pad,
                  net.args.activation, net.args.norm_layer).ok) =>
        /\ net.chain.ok
        /\ Len(net.chain.units) = net.args.depth
        /\ \A i \in 1..net.args.depth :
              net.chain.units[i].stride = net.args.strides.v

\* C15 amended: width and kernel size (ConvChain), width and dropout
\* (FCChain) are taken as one value applied to every layer or as a list of
\* exactly depth entries applied layer by layer; strides is taken as None
\* (stride 1 everywhere) or as a list of exactly depth entries; a list of
\* another length, and a single integer for strides, make the construction
\* fail.
C15_ScalarOrList ==
    /\ ChainBuilt("conv") =>
          LET a == net.args
              u == net.chain.units
          IN  /\ \A x \in {a.width, a.ksize, a.strides} :
                    x.tag = "list" => Len(x.l) = a.depth
              /\ a.strides.tag \in {"none", "list"}
              /\ \A i \in 1..a.depth :
                    /\ u[i].n_out = ArgAt(a.width, i)
                    /\ u[i].ksize = ArgAt(a.ksize, i)
                    /\ u[i].stride = (IF a.strides.tag = "none" THEN 1
                                      ELSE a.strides.l[i])
    /\ ChainBuilt("fc") =>
          LET a == net.args
              u == net.chain.units
          IN  /\ \A x \in {a.width, a.dropout} :
                    x.tag = "list" => Len(x.l) = a.depth
              /\ \A i \in 1..a.depth :
                    /\ u[i].n_out = ArgAt(a.width, i)
                    /\ u[i].dropout = (IF a.dropout.tag = "none" THEN None
                                       ELSE Some(ArgAt(a.dropout, i)))
    /\ (net.kind = "conv" /\ net.args.strides.tag = "int") => ~net.chain.ok

C15_Witness ==
    /\ ChainBuilt("conv") /\ net.args.depth = 2
    /\ net.args.ksize = IntArg(3) /\ net.args.width = IntArg(2)
    /\ net.args.strides = ListArg(<<1, 2>>)
    /\ net.chain.units[1].ksize = 3 /\ net.chain.units[2].ksize = 3
    /\ net.chain.units[1].stride = 1 /\ net.chain.units[2].stride = 2

\* C16: in every UNet that is built with num_levels >= 1, at every level the
\* first unit of the up-chain is declared with as many input channels as the
\* forward pass feeds it: the level's width plus the child's output channels
\* when the level has a child, the level's width alone when it has none.
C16_UpChainInputMatches ==
    UNetBuilt =>
        \A i \in 1..net.args.num_levels :
            DeclaredCh(net.unet.levels, i) = FedCh(net.unet.levels, i)

\* C17 as stated: level 0 outputs n_out channels and every level l > 0
\* outputs its own width min(base_width * increase_factor^l, max_width).
C17_LevelOutputsOwnWidth ==
    UNetBuilt =>
        /\ LevelOutCh(net.unet.levels, 1) = net.args.n_out
        /\ \A l \in 1..(net.args.num_levels - 1) :
              LevelOutCh(net.unet.levels, l + 1) = UNetWidth(net.args, l)

\* C17 amended: level 0 outputs n_out channels and every level l > 0 outputs
\* the width of its parent level,
\* min(base_width * increase_factor^(l-1), max_width).
C17_LevelOutputsParentWidth ==
    UNetBuilt =>
        /\ LevelOutCh(net.unet.levels, 1) = net.args.n_out
        /\ \A l \in 1..(net.args.num_levels - 1) :
              LevelOutCh(net.unet.levels, l + 1) = UNetWidth(net.args, l - 1)

C17_Witness ==
    /\ UNetBuilt /\ net.args.num_levels = 3 /\ net.args.num_convs = 2
    /\ net.args.base_width = 1 /\ net.args.increase_factor = 2
    /\ net.args.max_width = MaxCh * MaxCh /\ net.args.n_out = 2
    /\ LevelOutCh(net.unet.levels, 1) = 2
    /\ LevelOutCh(net.unet.levels, 2) = 1
    /\ LevelOutCh(net.unet.levels, 3) = 2
    /\ net.unet.levels[3].width = 4

\* C18: in every call the stepped player's gradients are zeroed before the
\* backward pass, the backward pass precedes the clipping (which happens
\* exactly when max_grad_norm is set), the clipping precedes the optimizer
\* step; the Wasserstein clamp follows opt_d.step(), and iter is incremented
\* after both.
C18_EventOrder ==
    Called =>
        LET ev == last.events
            clip == max_grad_norm # None
        IN  /\ Before(ev, "zero_d", "backward_d")
            /\ Before(ev, "backward_d", "step_d")
            /\ Before(ev, "zero_g", "backward_g")
            /\ Before(ev, "backward_g", "step_g")
            /\ Before(ev, "backward_d", "clip_d")
            /\ Before(ev, "backward_g", "clip_g")
            /\ clip => (Before(ev, "clip_d", "step_d")
                        /\ Before(ev, "clip_g", "step_g"))
            /\ ~clip => (~Did(ev, "clip_d") /\ ~Did(ev, "clip_g"))
            /\ Before(ev, "step_d", "clamp_d")
            /\ Before(ev, "step_d", "iter_inc")
            /\ wgan => Before(ev, "clamp_d", "iter_inc")
            /\ ~wgan => ~Did(ev, "clamp_d")
            /\ last.kind = "D" => (~Did(ev, "zero_g") /\ ~Did(ev, "step_g"))
            /\ last.kind \in {"G", "X"} =>
                  (~Did(ev, "zero_d") /\ ~Did(ev, "step_d"))

C18_Witness ==
    /\ Returned /\ last.kind = "D" /\ wgan /\ max_grad_norm # None
    /\ Did(last.events, "clip_d") /\ Did(last.events, "clamp_d")
    /\ Did(last.events, "iter_inc")

\* C19: a discriminator update leaves the generator's parameters unchanged;
\* a generator update and an extra-loss-only call leave the discriminator's
\* parameters unchanged, under the Wasserstein strategy too.
C19_ParameterFrame ==
    [][(calls' = calls + 1) =>
          /\ last'.kind = "D" => gen_params' = gen_params
          /\ last'.kind \in {"G", "X"} => disc_params' = disc_params]_vars

C19_Witness ==
    /\ Returned /\ wgan /\ c = 1 /\ last.kind = "G"
    /\ Did(last.events, "step_g") /\ gen_params[1] = 1
    /\ disc_params[1] = 1 /\ disc_params[2] = 0 - 1

\* C20: in a discriminator update that reaches opt_d.step(), the fake score
\* has no gradient path to the generator's parameters but has one to the
\* discriminator's parameters, as the real score has.
C20_FakeScoreReachesDiscriminator ==
    (Called /\ last.kind = "D" /\ Did(last.events, "step_d")) =>
        /\ "gen" \notin last.flow.fake
        /\ "disc" \in last.flow.fake
        /\ "disc" \in last.flow.real

\* the plan entry in which the latest call raised
FailedAt ==
    Plan(last.kind, last.extra, wgan, max_grad_norm # None)[Len(last.events) + 1]

\* entries that call a collaborator hook, a loss strategy, autograd or an
\* optimizer
HookLossOrOptimizer == MayRaise \ {"merge"}

\* C21 as stated: a call that raises in a collaborator hook, a loss strategy
\* or an optimizer leaves iter equal to its value before the call.
C21_FailureKeepsIter ==
    [][(/\ calls' = calls + 1 /\ last'.error # "none"
        /\ FailedAt' \in HookLossOrOptimizer) => iter' = iter]_vars

\* C21 amended: a call that raises leaves iter unchanged when it raises
\* before the branch on iter, in the no-discriminator path, or in a
\* discriminator update before opt_d.step() has returned; leaves iter = 0 when
\* it raises anywhere in a generator update (iter is reset first); and leaves
\* iter incremented when it raises after the discriminator was stepped.
C21_FailureIter ==
    [][(calls' = calls + 1 /\ last'.error # "none") =>
          iter' = (IF last'.kind = "D" /\ Did(last'.events, "step_d")
                      THEN iter + 1
                   ELSE IF last'.kind = "G" /\ Did(last'.events, "extra_loss")
                      THEN 0
                   ELSE iter)]_vars

C21_Witness ==
    /\ Called /\ discrim /\ ncritic = 2 /\ calls = 3 /\ last.kind = "G"
    /\ last.error = "collaborator" /\ FailedAt = "step_g"
    /\ Did(last.events, "backward_g") /\ iter = 0

\* C22: whenever an optimizer is stepped, the buffers of its player hold only
\* gradients of the backward pass of the same call, although a generator
\* update leaves its gradients in the discriminator's buffers too.
C22_StepAppliesOwnGradients ==
    Called =>
        /\ Did(last.events, "step_d") => grads.disc = {"cur"}
        /\ Did(last.events, "step_g") => grads.gen = {"cur"}
        /\ (last.kind = "G" /\ Did(last.events, "backward_g")) =>
              "cur" \in grads.disc

\* a discriminator update that follows a generator update
C22_Witness ==
    /\ Returned /\ clean /\ discrim /\ ncritic = 2 /\ calls = 4
    /\ last.kind = "D" /\ Did(last.events, "step_d")
    /\ grads.disc = {"cur"} /\ grads.gen = {"old"}

\* C23: with a threshold T, in each of the three paths the stepped player's
\* gradient norm is at most T when its optimizer is stepped, and a warning is
\* logged exactly when the norm before clipping exceeded T; without a
\* threshold nothing is clipped and nothing is logged.  (Norms are finite.)
C23_ClipBound ==
    (Called /\ last.stepnorm # None) =>
        IF max_grad_norm # None
        THEN /\ Did(last.events, "step_d") => Did(last.events, "clip_d")
             /\ Did(last.events, "step_g") => Did(last.events, "clip_g")
             /\ last.stepnorm[1] <= max_grad_norm[1]
             /\ last.warned = (last.nrm[1] > max_grad_norm[1])
             /\ last.nrm[1] <= max_grad_norm[1] => last.stepnorm = last.nrm
        ELSE /\ last.stepnorm = last.nrm
             /\ ~last.warned
             /\ ~Did(last.events, "clip_d") /\ ~Did(last.events, "clip_g")

C23_Witness ==
    /\ Returned /\ last.kind = "G" /\ max_grad_norm = Some(1)
    /\ last.nrm = Some(2) /\ last.stepnorm = Some(1) /\ last.warned

Relativistic == {"rgan", "ragan", "ralsgan"}

\* C24: for the Relativistic, Relativistic-average and Relativistic-average
\* least-squares strategies, generator_loss(fake, real) equals
\* discriminator_loss(real, fake) for every pair of scores of equal shape.
C24_GeneratorIsSwappedDiscriminator ==
    gan_loss.strategy \in Relativistic =>
        gan_loss.loss_g = gan_loss.loss_d_swapped

C24_Witness ==
    /\ gan_loss.strategy = "ralsgan"
    /\ gan_loss.fake = <<1, 0>> /\ gan_loss.real = <<0 - 1, 0>>
    /\ gan_loss.loss_g = gan_loss.loss_d_swapped
    /\ gan_loss.loss_g # gan_loss.loss_d

\* the chain the arguments of net build with leaky_relu as the activation
AsLeakyRelu ==
    IF net.kind = "fc"
    THEN FCChain(net.args.n_in, net.args.width, net.args.depth,
                 Some("leaky_relu"), net.args.dropout)
    ELSE ConvChain(net.args.n_in, net.args.ksize, net.args.width,
                   net.args.depth, net.args.strides, net.args.pad,
                   Some("leaky_relu"), net.args.norm_layer)

\* C25: a chain of affine or spatial units whose arguments are accepted with
\* activation leaky_relu is built with activation lrelu too, with the same
\* units (same layers, same initialisation gain).
C25_LreluBuilds ==
    (/\ net.kind \in {"fc", "conv"} /\ net.args.activation = Some("lrelu")
     /\ AsLeakyRelu.ok) =>
        (net.chain.ok /\ net.chain.units = AsLeakyRelu.units)

\* C26: on a controller with a discriminator and ncritic >= 1, as long as no
\* call began while another was running, iter never exceeds ncritic and at
\* most ncritic discriminator updates follow a generator update; once two
\* calls overlap, a state with iter > ncritic and more than ncritic
\* discriminator updates since the latest generator update is reachable (the
\* witness).
C26_SerializedIsSafe ==
    (Ready /\ discrim /\ ncritic >= 1 /\ ~overlap.overlapped) =>
        /\ 0 <= iter /\ iter <= ncritic
        /\ overlap.dsince <= ncritic

C26_Witness ==
    /\ Ready /\ discrim /\ ncritic >= 1 /\ overlap.overlapped
    /\ overlap.gcount >= 1
    /\ iter > ncritic
    /\ overlap.dsince > ncritic

====
